---- MODULE Spec2Model ----
(***************************************************************************)
(* Model of matlab/src/bits/nnfullyconnected.cu: the im2row / row2im patch *)
(* transform (CPU specialisation) and the fully-connected forward and      *)
(* backward operators.                                                     *)
(***************************************************************************)
EXTENDS Integers, Sequences, FiniteSets, TLC

(***************************************************************************)
(* Bounds of the model.                                                    *)
(***************************************************************************)
MaxComplexity == 5
MaxCalls == 2
MaxVolume == 2
MaxFilters == 2
MaxBatch == 2
MaxSeed == 1

VARIABLES
  g,        \* geometry arguments of im2row forward / backward
  data,     \* the volume buffer (type* data), flat, width fastest
  stacked,  \* the patch-matrix buffer (type* stacked), flat
  pc,       \* "idle", "forward" or "backward": the call in progress
  row,      \* loop variable `row` of the call in progress
  cur,      \* offset of the moving `stacked` pointer from the buffer start
  acc,      \* dereferences made while processing the last row
  hist,     \* calls started so far, oldest first
  fin,      \* fully-connected call: tensor shapes, presence flags, value seed
  fcpc,     \* fully-connected call: program position
  error,    \* fully-connected call: the local `error`
  ret,      \* fully-connected call: returned code, "none" before the return
  log,      \* fully-connected call: primitives invoked so far, in order
  output,   \* memory of the output tensor
  derInput, \* memory of the derInput tensor (empty when the tensor is absent)
  derFilter, \* memory of the derFilter tensor (empty when absent)
  derBias   \* memory of the derBias tensor (empty when absent)

im2rowVars == <<g, data, stacked, pc, row, cur, acc, hist>>

fcVars == <<fin, fcpc, error, ret, log, output, derInput, derFilter, derBias>>

vars == <<im2rowVars, fcVars>>

(***************************************************************************)
(* Integer helpers.  C's `/` and `%` truncate toward zero.                 *)
(***************************************************************************)
CDiv(a, b) == IF a >= 0 THEN a \div b ELSE -((-a) \div b)

CMod(a, b) == a - b * CDiv(a, b)

\* floor_divide without its branch for a negative numerator.
floor_divide_truncating(a, b) == CDiv(a, b)

floor_divide(a, b) == IF a >= 0 THEN CDiv(a, b) ELSE CDiv(a - b + 1, b)

ceil_divide(a, b) == IF a >= 0 THEN CDiv(a + b - 1, b) ELSE CDiv(a, b)

\* static_max that does not clamp.
static_max_unclamped(a, b) == b

static_max(a, b) == IF a >= b THEN a ELSE b

static_min(a, b) == IF a <= b THEN a ELSE b

(***************************************************************************)
(* Geometry derived at the top of forward and backward.                    *)
(***************************************************************************)
WindowExtent(window, dilate) == (window - 1) * dilate + 1

NumPatches(size, padBefore, padAfter, window, dilate, stride) ==
  CDiv(size + padBefore + padAfter - WindowExtent(window, dilate), stride) + 1

windowExtentX == WindowExtent(g.windowWidth, g.dilateX)

windowExtentY == WindowExtent(g.windowHeight, g.dilateY)

numPatchesX ==
  NumPatches(g.width, g.padLeft, g.padRight, g.windowWidth, g.dilateX, g.strideX)

numPatchesY ==
  NumPatches(g.height, g.padTop, g.padBottom, g.windowHeight, g.dilateY, g.strideY)

numRows == g.windowWidth * g.windowHeight * g.depth

VolumeSize == g.width * g.height * g.depth

StackedSize == numRows * numPatchesX * numPatchesY

(***************************************************************************)
(* Per-row quantities: the window offset (u,v,z) and the patch interval.   *)
(***************************************************************************)
RowU(r) == CMod(r, g.windowWidth)

RowV(r) == CMod(CDiv(r, g.windowWidth), g.windowHeight)

RowZ(r) == CDiv(CDiv(r, g.windowWidth), g.windowHeight)

x0(u) == static_min(numPatchesX, ceil_divide(g.padLeft - u * g.dilateX, g.strideX))

y0(v) == static_min(numPatchesY, ceil_divide(g.padTop - v * g.dilateY, g.strideY))

\* x1 as the last valid patch instead of one past it.
x1_inclusive(u) ==
  static_min(numPatchesX,
             floor_divide(g.width + g.padLeft - u * g.dilateX - 1, g.strideX))

x1(u) ==
  static_min(numPatchesX,
             floor_divide(g.width + g.padLeft - u * g.dilateX - 1, g.strideX) + 1)

y1(v) ==
  static_min(numPatchesY,
             floor_divide(g.height + g.padTop - v * g.dilateY - 1, g.strideY) + 1)

\* Value of the loop variable when `for ( ; i < end ; ++i)` exits.
LoopExit(i, end) == IF i < end THEN end ELSE i

\* Address of the first sample of a scanline: (z*height + y_data)*width + x_data.
DataStart(x, y, u, v, z) ==
  LET y_data == y * g.strideY + v * g.dilateY - g.padTop
      x_data == x * g.strideX + u * g.dilateX - g.padLeft
  IN (z * g.height + y_data) * g.width + x_data

(***************************************************************************)
(* Dereferences.  An execution record m holds the buffer being written     *)
(* (mem), the stacked cursor (cur) and the dereferences made (acc).  A     *)
(* dereference outside its buffer is undefined: a read yields junk, a      *)
(* write lands outside the modelled buffers.                               *)
(***************************************************************************)
Junk == {0, 1}

Deref(buf, idx, x, y) == [buf |-> buf, idx |-> idx, x |-> x, y |-> y]

\* *stacked++ = val
StoreStacked(m, x, y, val) ==
  [mem |-> IF m.cur \in DOMAIN m.mem THEN [m.mem EXCEPT ![m.cur] = val] ELSE m.mem,
   cur |-> m.cur + 1,
   acc |-> m.acc \cup {Deref("stacked", m.cur, x, y)}]

\* *b
LoadData(b, junk) == IF b \in DOMAIN data THEN data[b] ELSE junk

\* for ( ; x < xend ; ++x) { *stacked++ = 0 ; }
RECURSIVE ZeroLoop(_, _, _, _)
ZeroLoop(m, x, xend, y) ==
  IF x < xend THEN ZeroLoop(StoreStacked(m, x, y, 0), x + 1, xend, y) ELSE m

\* for ( ; x < x1 ; ++x) { *stacked++ = *b ; b += strideX ; }
RECURSIVE CopyLoop(_, _, _, _, _, _)
CopyLoop(m, x, xend, y, b, junk) ==
  IF x < xend
  THEN LET m1 == StoreStacked(m, x, y, LoadData(b, junk))
       IN CopyLoop([m1 EXCEPT !.acc = @ \cup {Deref("data", b, x, y)}],
                   x + 1, xend, y, b + g.strideX, junk)
  ELSE m

\* for ( ; y < yend ; ++y) { for (x = 0 ; x < numPatchesX ; ++x) *stacked++ = 0 ; }
RECURSIVE ZeroLines(_, _, _)
ZeroLines(m, y, yend) ==
  IF y < yend THEN ZeroLines(ZeroLoop(m, 0, numPatchesX, y), y + 1, yend) ELSE m

\* for ( ; y < y1 ; ++y) { zeros up to x0; copy up to x1; zeros up to numPatchesX }
RECURSIVE ForwardLines(_, _, _, _, _, _, _)
ForwardLines(m, y, yend, u, v, z, junk) ==
  IF y < yend
  THEN LET ma == ZeroLoop(m, 0, x0(u), y)
           xa == LoopExit(0, x0(u))
           mb == CopyLoop(ma, xa, x1(u), y, DataStart(xa, y, u, v, z), junk)
           xb == LoopExit(xa, x1(u))
           mc == ZeroLoop(mb, xb, numPatchesX, y)
       IN ForwardLines(mc, y + 1, yend, u, v, z, junk)
  ELSE m

\* Body of the row loop of forward.
ForwardRowBody(m, r, junk) ==
  LET u == RowU(r)
      v == RowV(r)
      z == RowZ(r)
      ma == ZeroLines(m, 0, y0(v))
      ya == LoopExit(0, y0(v))
      mb == ForwardLines(ma, ya, y1(v), u, v, z, junk)
      yb == LoopExit(ya, y1(v))
  IN ZeroLines(mb, yb, numPatchesY)

(***************************************************************************)
(* Backward.                                                               *)
(***************************************************************************)
\* backward without its memset.
MemsetOmitted(mem) == mem

\* memset(data, 0, sizeof(type) * size_t(width * height * depth))
Memset(mem) == [i \in DOMAIN mem |-> 0]

\* *stacked
LoadStacked(c, junk) == IF c \in DOMAIN stacked THEN stacked[c] ELSE junk

\* *b += *stacked++
AccumulateData(m, x, y, b, junk) ==
  [mem |-> IF b \in DOMAIN m.mem
           THEN [m.mem EXCEPT ![b] = @ + LoadStacked(m.cur, junk)]
           ELSE m.mem,
   cur |-> m.cur + 1,
   acc |-> m.acc \cup {Deref("stacked", m.cur, x, y), Deref("data", b, x, y)}]

\* for ( ; x < x1 ; ++x) { *b += *stacked++ ; b += strideX ; }
RECURSIVE AccumulateLoop(_, _, _, _, _, _)
AccumulateLoop(m, x, xend, y, b, junk) ==
  IF x < xend
  THEN AccumulateLoop(AccumulateData(m, x, y, b, junk),
                      x + 1, xend, y, b + g.strideX, junk)
  ELSE m

\* stacked += n
Skip(m, n) == [m EXCEPT !.cur = @ + n]

\* backward that does not step over the scanlines after the valid interval.
TailSkipOmitted(y) == 0

\* Cursor advance after the scanline loop: stacked += numPatchesX * (numPatchesY - y)
TailSkip(y) == numPatchesX * (numPatchesY - y)

\* for ( ; y < y1 ; ++y) { ... }
RECURSIVE BackwardLines(_, _, _, _, _, _, _)
BackwardLines(m, y, yend, u, v, z, junk) ==
  IF y < yend
  THEN LET x == static_max(0, x0(u))
           ma == Skip(m, x)
           mb == AccumulateLoop(ma, x, x1(u), y, DataStart(x, y, u, v, z), junk)
           xb == LoopExit(x, x1(u))
           mc == Skip(mb, numPatchesX - xb)
       IN BackwardLines(mc, y + 1, yend, u, v, z, junk)
  ELSE m

\* Body of the row loop of backward.
BackwardRowBody(m, r, junk) ==
  LET u == RowU(r)
      v == RowV(r)
      z == RowZ(r)
      y == static_max(0, y0(v))
      ma == Skip(m, numPatchesX * static_max(0, y))
      mb == BackwardLines(ma, y, y1(v), u, v, z, junk)
      yb == LoopExit(y, y1(v))
  IN Skip(mb, TailSkip(yb))

(***************************************************************************)
(* State machine of the patch transform.                                   *)
(***************************************************************************)
InitData(n) == [i \in 0 .. n - 1 |-> i + 1]

InitStacked(n) == [i \in 0 .. n - 1 |-> 2 * i + 1]

\* Arguments above their smallest legal value, summed: the size of a geometry.
Complexity(q) ==
  (q.width - 1) + (q.height - 1) + (q.depth - 1)
  + (q.windowWidth - 1) + (q.windowHeight - 1)
  + (q.strideX - 1) + (q.strideY - 1)
  + q.padLeft + q.padRight + q.padTop + q.padBottom
  + (q.dilateX - 1) + (q.dilateY - 1)

\* Every geometry of at most MaxComplexity whose patch counts are not negative.
GeometryInit ==
  /\ \E width \in 1 .. 1 + MaxComplexity :
     \E windowWidth \in 1 .. 2 + MaxComplexity - width :
     \E strideX \in 1 .. 3 + MaxComplexity - width - windowWidth :
     \E dilateX \in 1 .. 4 + MaxComplexity - width - windowWidth - strideX :
     \E padLeft \in 0 .. 4 + MaxComplexity - width - windowWidth - strideX - dilateX :
     \E padRight \in 0 .. 4 + MaxComplexity - width - windowWidth - strideX - dilateX
                            - padLeft :
       /\ NumPatches(width, padLeft, padRight, windowWidth, dilateX, strideX) >= 0
       /\ LET usedX == (width - 1) + (windowWidth - 1) + (strideX - 1)
                         + (dilateX - 1) + padLeft + padRight
              left == MaxComplexity - usedX
          IN \E height \in 1 .. 1 + left :
             \E windowHeight \in 1 .. 2 + left - height :
             \E strideY \in 1 .. 3 + left - height - windowHeight :
             \E dilateY \in 1 .. 4 + left - height - windowHeight - strideY :
             \E padTop \in 0 .. 4 + left - height - windowHeight - strideY - dilateY :
             \E padBottom \in 0 .. 4 + left - height - windowHeight - strideY - dilateY
                                     - padTop :
               /\ NumPatches(height, padTop, padBottom, windowHeight, dilateY, strideY)
                    >= 0
               /\ \E depth \in 1 .. 5 + left - height - windowHeight - strideY
                                      - dilateY - padTop - padBottom :
                    g = [width |-> width, height |-> height, depth |-> depth,
                         windowWidth |-> windowWidth, windowHeight |-> windowHeight,
                         strideX |-> strideX, strideY |-> strideY,
                         padLeft |-> padLeft, padRight |-> padRight,
                         padTop |-> padTop, padBottom |-> padBottom,
                         dilateX |-> dilateX, dilateY |-> dilateY]

Im2rowBuffersInit ==
  /\ data = InitData(VolumeSize)
  /\ stacked = InitStacked(StackedSize)
  /\ pc = "idle"
  /\ row = 0
  /\ cur = 0
  /\ acc = {}
  /\ hist = <<>>

ForwardCall ==
  /\ pc = "idle"
  /\ Len(hist) < MaxCalls
  /\ pc' = "forward"
  /\ row' = 0
  /\ cur' = 0
  /\ acc' = {}
  /\ hist' = Append(hist, "forward")
  /\ UNCHANGED <<g, data, stacked>>
  /\ UNCHANGED fcVars

ForwardRow ==
  /\ pc = "forward"
  /\ row < numRows
  /\ \E junk \in Junk :
       LET m == ForwardRowBody([mem |-> stacked, cur |-> cur, acc |-> {}], row, junk)
       IN /\ stacked' = m.mem
          /\ cur' = m.cur
          /\ acc' = m.acc
  /\ row' = row + 1
  /\ UNCHANGED <<g, data, pc, hist>>
  /\ UNCHANGED fcVars

ForwardReturn ==
  /\ pc = "forward"
  /\ ~(row < numRows)
  /\ pc' = "idle"
  /\ UNCHANGED <<g, data, stacked, row, cur, acc, hist>>
  /\ UNCHANGED fcVars

BackwardCall ==
  /\ pc = "idle"
  /\ Len(hist) < MaxCalls
  /\ pc' = "backward"
  /\ data' = Memset(data)
  /\ row' = 0
  /\ cur' = 0
  /\ acc' = {}
  /\ hist' = Append(hist, "backward")
  /\ UNCHANGED <<g, stacked>>
  /\ UNCHANGED fcVars

BackwardRow ==
  /\ pc = "backward"
  /\ row < numRows
  /\ \E junk \in Junk :
       LET m == BackwardRowBody([mem |-> data, cur |-> cur, acc |-> {}], row, junk)
       IN /\ data' = m.mem
          /\ cur' = m.cur
          /\ acc' = m.acc
  /\ row' = row + 1
  /\ UNCHANGED <<g, stacked, pc, hist>>
  /\ UNCHANGED fcVars

BackwardReturn ==
  /\ pc = "backward"
  /\ ~(row < numRows)
  /\ pc' = "idle"
  /\ UNCHANGED <<g, data, stacked, row, cur, acc, hist>>
  /\ UNCHANGED fcVars

Im2rowNext ==
  \/ ForwardCall
  \/ ForwardRow
  \/ ForwardReturn
  \/ BackwardCall
  \/ BackwardRow
  \/ BackwardReturn

(***************************************************************************)
(* Fully-connected operator: tensors.  The input is n samples of volume V, *)
(* the filter is m filters of volume V, the output and derOutput are       *)
(* 1 x 1 x OutDepth x n.  Without a filter the output has the shape of the *)
(* input.  An absent tensor has no memory.                                 *)
(***************************************************************************)
VLE_Success == "VLE_Success"

ErrorCodes == {"VLE_Cublas", "VLE_OutOfMemory"}

Statuses == {VLE_Success} \cup ErrorCodes

filterVolume == fin.V

OutDepth == IF fin.filter THEN fin.m ELSE fin.V

InputMemory == [i \in 0 .. fin.V * fin.n - 1 |-> 1 + i + fin.seed]

FilterMemory ==
  IF fin.filter THEN [i \in 0 .. fin.V * fin.m - 1 |-> 2 + 3 * i - fin.seed] ELSE <<>>

BiasMemory ==
  IF fin.bias THEN [j \in 0 .. OutDepth - 1 |-> 10 * (j + 1) + fin.seed] ELSE <<>>

DerOutputMemory == [i \in 0 .. OutDepth * fin.n - 1 |-> 5 + 2 * i + 3 * fin.seed]

\* Memory a caller hands over for a result: not initialised.
Uninitialised(present, count) ==
  IF present THEN [i \in 0 .. count - 1 |-> -7] ELSE <<>>

\* Context::getAllOnes(deviceType, dataType, n) when it succeeds.
AllOnes(count) == [i \in 0 .. count - 1 |-> 1]

(***************************************************************************)
(* Linear-algebra primitives, column-major as in BLAS.                     *)
(***************************************************************************)
RECURSIVE Dot(_, _, _)
Dot(k, a, b) == IF k = 0 THEN 0 ELSE a[k - 1] * b[k - 1] + Dot(k - 1, a, b)

\* C := alpha * op(A) * op(B) + beta * C, op(A) is M x K, op(B) is K x N.
Gemm(transA, transB, M, N, K, alpha, A, lda, B, ldb, beta, C, ldc) ==
  [idx \in DOMAIN C |->
     IF \E i \in 0 .. M - 1, j \in 0 .. N - 1 : idx = i + j * ldc
     THEN LET ij == CHOOSE ij \in (0 .. M - 1) \X (0 .. N - 1) :
                      idx = ij[1] + ij[2] * ldc
              opA == [l \in 0 .. K - 1 |->
                        IF transA = "n" THEN A[ij[1] + l * lda] ELSE A[l + ij[1] * lda]]
              opB == [l \in 0 .. K - 1 |->
                        IF transB = "n" THEN B[l + ij[2] * ldb] ELSE B[ij[2] + l * ldb]]
          IN alpha * Dot(K, opA, opB) + (IF beta = 0 THEN 0 ELSE beta * C[idx])
     ELSE C[idx]]

\* y := alpha * op(A) * x + beta * y, A is M x N.
Gemv(trans, M, N, alpha, A, lda, x, incx, beta, y, incy) ==
  LET len == IF trans = "n" THEN M ELSE N
      inner == IF trans = "n" THEN N ELSE M
  IN [idx \in DOMAIN y |->
        IF \E i \in 0 .. len - 1 : idx = i * incy
        THEN LET i == CHOOSE i \in 0 .. len - 1 : idx = i * incy
                 opA == [l \in 0 .. inner - 1 |->
                           IF trans = "n" THEN A[i + l * lda] ELSE A[l + i * lda]]
                 xv == [l \in 0 .. inner - 1 |-> x[l * incx]]
             IN alpha * Dot(inner, opA, xv) + (IF beta = 0 THEN 0 ELSE beta * y[idx])
        ELSE y[idx]]

\* operations::copy(dst, src, count)
Copy(dst, src, count) ==
  [idx \in DOMAIN dst |-> IF idx < count /\ idx \in DOMAIN src THEN src[idx] ELSE dst[idx]]

\* Context::passError(error, func)
passError(e) == e

(***************************************************************************)
(* The primitive calls of FullyConnectedForward and FullyConnectedBackward *)
(* with their arguments.                                                   *)
(***************************************************************************)
\* Forward takes the matrix-vector path when the stack holds one image.
OneImage == fin.n = 1

ForwardGemv(out) ==
  Gemv("t", filterVolume, fin.m, 1, FilterMemory, filterVolume,
       InputMemory, 1, 0, out, 1)

ForwardGemm(out) ==
  Gemm("t", "n", fin.m, fin.n, filterVolume, 1, FilterMemory, filterVolume,
       InputMemory, filterVolume, 0, out, fin.m)

ForwardCopy(out) == Copy(out, InputMemory, fin.V * fin.n)

\* The bias product with beta = 0: it overwrites the output.
ForwardBiasGemmOverwriting(out) ==
  Gemm("n", "n", OutDepth, fin.n, 1, 1, BiasMemory, OutDepth,
       AllOnes(fin.n), 1, 0, out, OutDepth)

ForwardBiasGemm(out) ==
  Gemm("n", "n", OutDepth, fin.n, 1, 1, BiasMemory, OutDepth,
       AllOnes(fin.n), 1, 1, out, OutDepth)

BackwardDerFilterGemm(out) ==
  Gemm("n", "t", filterVolume, fin.m, fin.n, 1, InputMemory, filterVolume,
       DerOutputMemory, fin.m, 0, out, filterVolume)

BackwardDerInputGemm(out) ==
  Gemm("n", "n", filterVolume, fin.n, fin.m, 1, FilterMemory, filterVolume,
       DerOutputMemory, fin.m, 0, out, filterVolume)

BackwardCopy(out) == Copy(out, DerOutputMemory, OutDepth * fin.n)

BackwardDerBiasGemm(out) ==
  Gemm("n", "t", 1, OutDepth, fin.n, 1, AllOnes(fin.n), 1,
       DerOutputMemory, OutDepth, 0, out, 1)

\* The guards `if (derFilter)`, `if (derInput)`, `if (derBias)`.
DerFilterRequested == fin.derFilter

\* derInput computed only inside the derFilter branch.
DerInputRequestedWithDerFilter == fin.derInput /\ fin.derFilter

DerInputRequested == fin.derInput

DerBiasRequested == fin.derBias

\* One entry of the log: the primitive, the tensor it writes, its status.
Invoked(prim, target, status) == [prim |-> prim, target |-> target, status |-> status]

(***************************************************************************)
(* State machine of the fully-connected operator.                          *)
(***************************************************************************)
FCInit ==
  /\ \E V \in 1 .. MaxVolume, m \in 1 .. MaxFilters, n \in 1 .. MaxBatch,
        seed \in 0 .. MaxSeed,
        hasFilter \in BOOLEAN, hasBias \in BOOLEAN, hasDerInput \in BOOLEAN,
        hasDerFilter \in BOOLEAN, hasDerBias \in BOOLEAN :
       fin = [V |-> V, m |-> m, n |-> n, seed |-> seed, filter |-> hasFilter,
              bias |-> hasBias, derInput |-> hasDerInput,
              derFilter |-> hasDerFilter, derBias |-> hasDerBias]
  /\ fcpc = "idle"
  /\ error = VLE_Success
  /\ ret = "none"
  /\ log = <<>>
  /\ output = Uninitialised(TRUE, OutDepth * fin.n)
  /\ derInput = Uninitialised(fin.derInput, fin.V * fin.n)
  /\ derFilter = Uninitialised(fin.derFilter, fin.V * fin.m)
  /\ derBias = Uninitialised(fin.derBias, OutDepth)

FCForwardCall ==
  /\ fcpc = "idle"
  /\ fcpc' = "f_filter"
  /\ error' = VLE_Success
  /\ UNCHANGED <<fin, ret, log, output, derInput, derFilter, derBias>>
  /\ UNCHANGED im2rowVars

FCForwardGemv ==
  /\ fcpc = "f_filter"
  /\ fin.filter
  /\ OneImage
  /\ \E st \in Statuses :
       /\ error' = st
       /\ log' = Append(log, Invoked("gemv", "output", st))
       /\ output' = IF st = VLE_Success THEN ForwardGemv(output) ELSE output
       /\ fcpc' = IF st # VLE_Success THEN "f_done" ELSE "f_bias"
  /\ UNCHANGED <<fin, ret, derInput, derFilter, derBias>>
  /\ UNCHANGED im2rowVars

FCForwardGemm ==
  /\ fcpc = "f_filter"
  /\ fin.filter
  /\ ~OneImage
  /\ \E st \in Statuses :
       /\ error' = st
       /\ log' = Append(log, Invoked("gemm", "output", st))
       /\ output' = IF st = VLE_Success THEN ForwardGemm(output) ELSE output
       /\ fcpc' = IF st # VLE_Success THEN "f_done" ELSE "f_bias"
  /\ UNCHANGED <<fin, ret, derInput, derFilter, derBias>>
  /\ UNCHANGED im2rowVars

FCForwardCopy ==
  /\ fcpc = "f_filter"
  /\ ~fin.filter
  /\ \E st \in Statuses :
       /\ error' = st
       /\ log' = Append(log, Invoked("copy", "output", st))
       /\ output' = IF st = VLE_Success THEN ForwardCopy(output) ELSE output
  /\ fcpc' = "f_bias"
  /\ UNCHANGED <<fin, ret, derInput, derFilter, derBias>>
  /\ UNCHANGED im2rowVars

FCForwardNoBias ==
  /\ fcpc = "f_bias"
  /\ ~fin.bias
  /\ fcpc' = "f_done"
  /\ UNCHANGED <<fin, error, ret, log, output, derInput, derFilter, derBias>>
  /\ UNCHANGED im2rowVars

FCForwardAllOnes ==
  /\ fcpc = "f_bias"
  /\ fin.bias
  /\ \E st \in Statuses :
       /\ log' = Append(log, Invoked("getAllOnes", "allOnes", st))
       /\ error' = IF st = VLE_Success THEN error ELSE st
       /\ fcpc' = IF st = VLE_Success THEN "f_biasgemm" ELSE "f_done"
  /\ UNCHANGED <<fin, ret, output, derInput, derFilter, derBias>>
  /\ UNCHANGED im2rowVars

FCForwardBiasGemm ==
  /\ fcpc = "f_biasgemm"
  /\ \E st \in Statuses :
       /\ error' = st
       /\ log' = Append(log, Invoked("gemm", "output", st))
       /\ output' = IF st = VLE_Success THEN ForwardBiasGemm(output) ELSE output
  /\ fcpc' = "f_done"
  /\ UNCHANGED <<fin, ret, derInput, derFilter, derBias>>
  /\ UNCHANGED im2rowVars

FCForwardReturn ==
  /\ fcpc = "f_done"
  /\ ret' = passError(error)
  /\ fcpc' = "f_returned"
  /\ UNCHANGED <<fin, error, log, output, derInput, derFilter, derBias>>
  /\ UNCHANGED im2rowVars

FCBackwardCall ==
  /\ fcpc = "idle"
  /\ fcpc' = "b_filter"
  /\ error' = VLE_Success
  /\ UNCHANGED <<fin, ret, log, output, derInput, derFilter, derBias>>
  /\ UNCHANGED im2rowVars

FCBackwardDerFilter ==
  /\ fcpc = "b_filter"
  /\ fin.filter
  /\ DerFilterRequested
  /\ \E st \in Statuses :
       /\ error' = st
       /\ log' = Append(log, Invoked("gemm", "derFilter", st))
       /\ derFilter' = IF st = VLE_Success THEN BackwardDerFilterGemm(derFilter)
                       ELSE derFilter
       /\ fcpc' = IF st # VLE_Success THEN "b_done" ELSE "b_input"
  /\ UNCHANGED <<fin, ret, output, derInput, derBias>>
  /\ UNCHANGED im2rowVars

FCBackwardNoDerFilter ==
  /\ fcpc = "b_filter"
  /\ fin.filter
  /\ ~DerFilterRequested
  /\ fcpc' = "b_input"
  /\ UNCHANGED <<fin, error, ret, log, output, derInput, derFilter, derBias>>
  /\ UNCHANGED im2rowVars

FCBackwardDerInput ==
  /\ fcpc = "b_input"
  /\ DerInputRequested
  /\ \E st \in Statuses :
       /\ error' = st
       /\ log' = Append(log, Invoked("gemm", "derInput", st))
       /\ derInput' = IF st = VLE_Success THEN BackwardDerInputGemm(derInput)
                      ELSE derInput
       /\ fcpc' = IF st # VLE_Success THEN "b_done" ELSE "b_bias"
  /\ UNCHANGED <<fin, ret, output, derFilter, derBias>>
  /\ UNCHANGED im2rowVars

FCBackwardNoDerInput ==
  /\ fcpc = "b_input"
  /\ ~DerInputRequested
  /\ fcpc' = "b_bias"
  /\ UNCHANGED <<fin, error, ret, log, output, derInput, derFilter, derBias>>
  /\ UNCHANGED im2rowVars

\* The copy's status is not assigned to `error`.
FCBackwardCopy ==
  /\ fcpc = "b_filter"
  /\ ~fin.filter
  /\ \E st \in Statuses :
       /\ log' = Append(log, Invoked("copy", "derInput", st))
       /\ derInput' = IF st = VLE_Success THEN BackwardCopy(derInput) ELSE derInput
  /\ fcpc' = "b_bias"
  /\ UNCHANGED <<fin, error, ret, output, derFilter, derBias>>
  /\ UNCHANGED im2rowVars

FCBackwardNoDerBias ==
  /\ fcpc = "b_bias"
  /\ ~DerBiasRequested
  /\ fcpc' = "b_done"
  /\ UNCHANGED <<fin, error, ret, log, output, derInput, derFilter, derBias>>
  /\ UNCHANGED im2rowVars

FCBackwardAllOnes ==
  /\ fcpc = "b_bias"
  /\ DerBiasRequested
  /\ \E st \in Statuses :
       /\ log' = Append(log, Invoked("getAllOnes", "allOnes", st))
       /\ error' = IF st = VLE_Success THEN error ELSE st
       /\ fcpc' = IF st = VLE_Success THEN "b_biasgemm" ELSE "b_done"
  /\ UNCHANGED <<fin, ret, output, derInput, derFilter, derBias>>
  /\ UNCHANGED im2rowVars

FCBackwardBiasGemm ==
  /\ fcpc = "b_biasgemm"
  /\ \E st \in Statuses :
       /\ error' = st
       /\ log' = Append(log, Invoked("gemm", "derBias", st))
       /\ derBias' = IF st = VLE_Success THEN BackwardDerBiasGemm(derBias) ELSE derBias
  /\ fcpc' = "b_done"
  /\ UNCHANGED <<fin, ret, output, derInput, derFilter>>
  /\ UNCHANGED im2rowVars

FCBackwardReturn ==
  /\ fcpc = "b_done"
  /\ ret' = passError(error)
  /\ fcpc' = "b_returned"
  /\ UNCHANGED <<fin, error, log, output, derInput, derFilter, derBias>>
  /\ UNCHANGED im2rowVars

FCNext ==
  \/ FCForwardCall
  \/ FCForwardGemv
  \/ FCForwardGemm
  \/ FCForwardCopy
  \/ FCForwardNoBias
  \/ FCForwardAllOnes
  \/ FCForwardBiasGemm
  \/ FCForwardReturn
  \/ FCBackwardCall
  \/ FCBackwardDerFilter
  \/ FCBackwardNoDerFilter
  \/ FCBackwardDerInput
  \/ FCBackwardNoDerInput
  \/ FCBackwardCopy
  \/ FCBackwardNoDerBias
  \/ FCBackwardAllOnes
  \/ FCBackwardBiasGemm
  \/ FCBackwardReturn

(***************************************************************************)
(* Specifications.  SpecIm2row runs the patch transform on every bounded   *)
(* geometry with the operator at rest; SpecFC runs one fully-connected     *)
(* call on every bounded input with the patch transform at rest.           *)
(***************************************************************************)
\* The operator at rest: no call made.
FCRest ==
  /\ fin = [V |-> 1, m |-> 1, n |-> 1, seed |-> 0, filter |-> FALSE, bias |-> FALSE,
            derInput |-> FALSE, derFilter |-> FALSE, derBias |-> FALSE]
  /\ fcpc = "idle"
  /\ error = VLE_Success
  /\ ret = "none"
  /\ log = <<>>
  /\ output = <<>>
  /\ derInput = <<>>
  /\ derFilter = <<>>
  /\ derBias = <<>>

\* The patch transform at rest on the smallest geometry.
Im2rowRest ==
  /\ g = [width |-> 1, height |-> 1, depth |-> 1, windowWidth |-> 1,
          windowHeight |-> 1, strideX |-> 1, strideY |-> 1, padLeft |-> 0,
          padRight |-> 0, padTop |-> 0, padBottom |-> 0, dilateX |-> 1, dilateY |-> 1]
  /\ Im2rowBuffersInit

Im2rowInit == GeometryInit /\ Im2rowBuffersInit /\ FCRest

FullyConnectedInit == Im2rowRest /\ FCInit

SpecIm2row == Im2rowInit /\ [][Im2rowNext]_vars

SpecFC == FullyConnectedInit /\ [][FCNext]_vars

(***************************************************************************)
(* Reference definitions used by the properties of the patch transform.    *)
(***************************************************************************)
SampleX(x, u) == x * g.strideX + u * g.dilateX - g.padLeft

SampleY(y, v) == y * g.strideY + v * g.dilateY - g.padTop

InVolume(xd, yd) == 0 <= xd /\ xd < g.width /\ 0 <= yd /\ yd < g.height

VolumeIndex(xd, yd, z) == (z * g.height + yd) * g.width + xd

RowIndex(u, v, z) == (z * g.windowHeight + v) * g.windowWidth + u

StackedIndex(u, v, z, x, y) ==
  RowIndex(u, v, z) * numPatchesX * numPatchesY + y * numPatchesX + x

US == 0 .. g.windowWidth - 1

VS == 0 .. g.windowHeight - 1

ZS == 0 .. g.depth - 1

PX == 0 .. numPatchesX - 1

PY == 0 .. numPatchesY - 1

\* The window fits in the padded volume on both axes.
ValidGeometry ==
  /\ windowExtentX <= g.width + g.padLeft + g.padRight
  /\ windowExtentY <= g.height + g.padTop + g.padBottom

LastCall == IF hist = <<>> THEN "none" ELSE hist[Len(hist)]

ForwardDone == pc = "idle" /\ LastCall = "forward"

BackwardDone == pc = "idle" /\ LastCall = "backward"

RECURSIVE SumOver(_, _)
SumOver(S, f) ==
  IF S = {} THEN 0
  ELSE LET e == CHOOSE e \in S : TRUE IN f[e] + SumOver(S \ {e}, f)

\* Patch-matrix entries whose sampled coordinate is the volume cell (xd,yd,z).
Contributors(xd, yd, z) ==
  {StackedIndex(u, v, z, x, y) : <<u, v, x, y>> \in
     {t \in US \X VS \X PX \X PY :
        SampleX(t[3], t[1]) = xd /\ SampleY(t[4], t[2]) = yd}}

\* The valid interval of row (u,v) holds no patch.
EmptyInterval(u, v) ==
  x1(u) <= static_max(0, x0(u)) \/ y1(v) <= static_max(0, y0(v))

(***************************************************************************)
(* C1: im2row forward.  For every valid geometry, once forward has         *)
(* returned, the entry of row (u,v,z) at patch (x,y) is the volume value   *)
(* at the sampled coordinate when that coordinate lies inside the volume,  *)
(* and 0 otherwise.                                                        *)
(***************************************************************************)
C1_ForwardExtract ==
  (ForwardDone /\ ValidGeometry) =>
    /\ DOMAIN stacked = 0 .. StackedSize - 1
    /\ \A u \in US, v \in VS, z \in ZS, x \in PX, y \in PY :
         stacked[StackedIndex(u, v, z, x, y)] =
           IF InVolume(SampleX(x, u), SampleY(y, v))
           THEN data[VolumeIndex(SampleX(x, u), SampleY(y, v), z)]
           ELSE 0

\* Forward has returned on a padded valid geometry that has a row with an
\* empty valid interval and a row that copies a volume value.
C1_Witness ==
  /\ ForwardDone
  /\ ValidGeometry
  /\ numPatchesX > 0 /\ numPatchesY > 0
  /\ \E u \in US, v \in VS : EmptyInterval(u, v)
  /\ \E u \in US, v \in VS, x \in PX, y \in PY :
       /\ InVolume(SampleX(x, u), SampleY(y, v))
       /\ stacked[StackedIndex(u, v, 0, x, y)] # 0

(***************************************************************************)
(* C2: im2row backward.  For every valid geometry, once backward has       *)
(* returned, every volume cell holds the sum of the patch-matrix entries   *)
(* sampled at it, cells sampled by no patch hold 0 whatever they held      *)
(* before, and entries sampled outside the volume contribute nothing.      *)
(***************************************************************************)
C2_BackwardAccumulate ==
  (BackwardDone /\ ValidGeometry) =>
    /\ DOMAIN data = 0 .. VolumeSize - 1
    /\ \A xd \in 0 .. g.width - 1, yd \in 0 .. g.height - 1, z \in ZS :
         data[VolumeIndex(xd, yd, z)] = SumOver(Contributors(xd, yd, z), stacked)

\* Backward has returned on the initial (all non-zero) patch matrix of a valid
\* geometry in which a cell is sampled twice, a cell is sampled by no patch and
\* an entry is sampled outside the volume.
C2_Witness ==
  /\ BackwardDone
  /\ ValidGeometry
  /\ hist = <<"backward">>
  /\ \E xd \in 0 .. g.width - 1, yd \in 0 .. g.height - 1 :
       Cardinality(Contributors(xd, yd, 0)) >= 2
  /\ \E xd \in 0 .. g.width - 1, yd \in 0 .. g.height - 1 :
       Contributors(xd, yd, 0) = {} /\ data[VolumeIndex(xd, yd, 0)] = 0
  /\ \E u \in US, v \in VS, x \in PX, y \in PY :
       ~InVolume(SampleX(x, u), SampleY(y, v))

(***************************************************************************)
(* C3: adjoint round trip.                                                 *)
(***************************************************************************)
\* Patches do not overlap: the stride is at least the window extent.
NonOverlapping == g.strideX >= windowExtentX /\ g.strideY >= windowExtentY

RoundTripDone == pc = "idle" /\ hist = <<"forward", "backward">>

\* C3 as stated: with non-overlapping patches, backward applied to the result
\* of forward on a volume V returns exactly V.
C3_RoundTripIdentity ==
  (RoundTripDone /\ ValidGeometry /\ NonOverlapping) =>
    data = InitData(VolumeSize)

\* C3 as amended: with non-overlapping patches, backward applied to the result
\* of forward on a volume V returns V at every cell sampled by some patch and
\* 0 at every cell sampled by none.
C3_RoundTripCovered ==
  (RoundTripDone /\ NonOverlapping) =>
    \A xd \in 0 .. g.width - 1, yd \in 0 .. g.height - 1, z \in ZS :
      data[VolumeIndex(xd, yd, z)] =
        IF Contributors(xd, yd, z) # {}
        THEN InitData(VolumeSize)[VolumeIndex(xd, yd, z)]
        ELSE 0

\* A round trip has completed on a non-overlapping geometry that samples one
\* cell and leaves another one unsampled.
C3_Witness ==
  /\ RoundTripDone
  /\ ValidGeometry
  /\ NonOverlapping
  /\ \E xd \in 0 .. g.width - 1, yd \in 0 .. g.height - 1 :
       Contributors(xd, yd, 0) # {} /\ data[VolumeIndex(xd, yd, 0)] # 0
  /\ \E xd \in 0 .. g.width - 1, yd \in 0 .. g.height - 1 :
       Contributors(xd, yd, 0) = {}

(***************************************************************************)
(* C8: memory safety.  Every dereference of the volume pointer is at an    *)
(* index inside the volume and every dereference of the patch-matrix       *)
(* pointer is at an index inside the patch matrix.                         *)
(***************************************************************************)
C8_MemorySafe ==
  \A d \in acc :
    /\ d.buf = "data" => (0 <= d.idx /\ d.idx < VolumeSize)
    /\ d.buf = "stacked" => (0 <= d.idx /\ d.idx < StackedSize)

\* Backward has just processed a row whose computed lower bound is negative
\* and accumulated into the volume, in a geometry that has an empty row too.
C8_Witness ==
  /\ pc = "backward"
  /\ row > 0
  /\ x0(RowU(row - 1)) < 0
  /\ \E d \in acc : d.buf = "data"
  /\ \E u \in US, v \in VS : EmptyInterval(u, v)

(***************************************************************************)
(* C9: patch count.  Whenever the floor-based count is not negative on     *)
(* both axes, the counts the code computes equal it, and forward writes    *)
(* exactly numRows * countX * countY entries.                              *)
(***************************************************************************)
FloorCount(size, padBefore, padAfter, window, dilate, stride) ==
  ((size + padBefore + padAfter - WindowExtent(window, dilate)) \div stride) + 1

FloorCountX ==
  FloorCount(g.width, g.padLeft, g.padRight, g.windowWidth, g.dilateX, g.strideX)

FloorCountY ==
  FloorCount(g.height, g.padTop, g.padBottom, g.windowHeight, g.dilateY, g.strideY)

C9_PatchCount ==
  (FloorCountX >= 0 /\ FloorCountY >= 0) =>
    /\ numPatchesX = FloorCountX
    /\ numPatchesY = FloorCountY
    /\ ForwardDone => cur = numRows * FloorCountX * FloorCountY

(***************************************************************************)
(* C10: cursor synchronisation.  In forward and backward the patch-matrix  *)
(* cursor is at row * numPatchesX * numPatchesY when a row starts, and     *)
(* within a row it is at y * numPatchesX + x when patch (x,y) is           *)
(* dereferenced.                                                           *)
(***************************************************************************)
C10_CursorSync ==
  /\ cur = row * numPatchesX * numPatchesY
  /\ \A d \in acc :
       d.buf = "stacked" =>
         d.idx = (row - 1) * numPatchesX * numPatchesY + d.y * numPatchesX + d.x

\* Backward has finished a row with negative computed bounds and is about to
\* start the next one, after a row with an empty valid interval.
C10_Witness ==
  /\ pc = "backward"
  /\ row > 1
  /\ row < numRows
  /\ x0(RowU(row - 1)) < 0
  /\ EmptyInterval(RowU(row - 2), RowV(row - 2))
  /\ \E d \in acc : d.buf = "stacked"

(***************************************************************************)
(* Reference definitions used by the properties of the fully-connected     *)
(* operator.                                                               *)
(***************************************************************************)
Succeeded == \A i \in DOMAIN log : log[i].status = VLE_Success

ForwardReturned == fcpc = "f_returned"

BackwardReturned == fcpc = "b_returned"

Present(target) ==
  CASE target = "derInput" -> fin.derInput
    [] target = "derFilter" -> fin.derFilter
    [] target = "derBias" -> fin.derBias
    [] OTHER -> TRUE

KS == 0 .. fin.V - 1

JS == 0 .. OutDepth - 1

NS == 0 .. fin.n - 1

\* sum over k < V of filter[k,j] * input[k,i]
Projection(j, i) ==
  SumOver(KS, [k \in KS |-> FilterMemory[k + j * fin.V] * InputMemory[k + i * fin.V]])

(***************************************************************************)
(* C4: error propagation.  In a fully-connected forward or backward call   *)
(* no primitive is invoked after one returned a non-success status, and    *)
(* the call then returns that status.                                      *)
(***************************************************************************)
C4_ErrorPropagation ==
  /\ \A i \in DOMAIN log : log[i].status # VLE_Success => i = Len(log)
  /\ \A i \in DOMAIN log :
       (ret # "none" /\ log[i].status # VLE_Success) => ret = log[i].status

(***************************************************************************)
(* C5: backward never passes an absent derInput, derFilter or derBias      *)
(* tensor as the write target of a gemm or copy.                           *)
(***************************************************************************)
C5_WritesOnlyPresent ==
  \A i \in DOMAIN log :
    log[i].target \in {"derInput", "derFilter", "derBias"} => Present(log[i].target)

(***************************************************************************)
(* C6: forward result.  When every primitive succeeded, output[j,i] is the *)
(* projection of sample i on filter j (or input[j,i] without a filter)     *)
(* plus bias[j] when the bias is present, for every sample i.              *)
(***************************************************************************)
C6_ForwardResult ==
  (ForwardReturned /\ Succeeded) =>
    /\ ret = VLE_Success
    /\ \A j \in JS, i \in NS :
         output[j + i * OutDepth] =
           (IF fin.filter THEN Projection(j, i) ELSE InputMemory[j + i * fin.V])
           + (IF fin.bias THEN BiasMemory[j] ELSE 0)

\* Forward has returned after a successful matrix-matrix product and bias
\* broadcast over several samples.
C6_Witness ==
  /\ ForwardReturned
  /\ Succeeded
  /\ fin.filter /\ fin.bias
  /\ fin.n > 1 /\ fin.m > 1 /\ fin.V > 1
  /\ Len(log) = 3

(***************************************************************************)
(* C7: backward result.  When every primitive succeeded and the filter is  *)
(* present, each requested slot holds its reference gradient, whichever    *)
(* other slots are requested.                                              *)
(***************************************************************************)
C7_BackwardResult ==
  (BackwardReturned /\ Succeeded /\ fin.filter) =>
    /\ fin.derFilter =>
         \A k \in KS, j \in JS :
           derFilter[k + j * fin.V] =
             SumOver(NS, [i \in NS |-> InputMemory[k + i * fin.V]
                                        * DerOutputMemory[j + i * fin.m]])
    /\ fin.derInput =>
         \A k \in KS, i \in NS :
           derInput[k + i * fin.V] =
             SumOver(JS, [j \in JS |-> FilterMemory[k + j * fin.V]
                                        * DerOutputMemory[j + i * fin.m]])
    /\ fin.derBias =>
         \A j \in JS :
           derBias[j] = SumOver(NS, [i \in NS |-> DerOutputMemory[j + i * fin.m]])

\* Backward has returned successfully with derInput and derBias requested and
\* derFilter not requested, on several samples and filters.
C7_Witness ==
  /\ BackwardReturned
  /\ Succeeded
  /\ fin.filter
  /\ fin.derInput /\ fin.derBias /\ ~fin.derFilter
  /\ fin.n > 1 /\ fin.m > 1 /\ fin.V > 1
  /\ Len(log) = 3

====
